---- MODULE Spec2Model ----
(***************************************************************************)
(* Model of packages/docutils/lib/init.ts: the `init` command handler, the *)
(* Python dependency installer `initPython` and the mkdocs.yml transform   *)
(* given to createScaffoldTask.                                            *)
(*                                                                         *)
(* Two specifications share the module's variables:                        *)
(*   Spec           init / initPython as a state machine (one action per   *)
(*                  await point or branch of the code);                    *)
(*   SpecTransform  the mkdocs transform applied to bounded inputs.        *)
(***************************************************************************)
EXTENDS Integers, Sequences, FiniteSets, TLC

VARIABLES
  opts,        \* the InitOptions object init (or initPython) was called with
  entry,       \* which exported function the caller invoked
  pc,          \* position of the running call
  ip,          \* index in StepOrder of the `if` block init is at
  log,         \* log lines emitted so far: [tag, level, msg]
  calls,       \* task invocations so far: [step, args]
  running,     \* steps whose promise is pending
  completed,   \* steps whose promise resolved
  files,       \* destination paths written by scaffold tasks
  spawned,     \* command lines handed to teen_process exec
  execOutcome, \* how the exec promise settled
  stepErr,     \* error the failing step rejected with
  result,      \* how the promise of the top-level call settled
  tOpts,       \* transform: the task options
  tContent,    \* transform: the working content object passed in
  tContent0,   \* transform: that object's fields at the time of the call
  tPkg,        \* transform: the project metadata
  tOut,        \* transform: what the call produced
  tPhase       \* transform: "ready" before the call, "called" after

orchVars == <<opts, entry, pc, ip, log, calls, running, completed, files,
              spawned, execOutcome, stepErr, result>>
transformVars == <<tOpts, tContent, tContent0, tPkg, tOut, tPhase>>
vars == <<opts, entry, pc, ip, log, calls, running, completed, files,
          spawned, execOutcome, stepErr, result,
          tOpts, tContent, tContent0, tPkg, tOut, tPhase>>

----------------------------------------------------------------------------
(* JavaScript values.  A string is a sequence of tokens (characters where  *)
(* the code looks inside the string).                                      *)

Undef == [t |-> "undefined"]
Str(q) == [t |-> "string", s |-> q]
Bool(q) == [t |-> "boolean", b |-> q]

\* JS truthiness of a value: undefined, false and '' are falsy
Truthy(x) ==
  CASE x.t = "undefined" -> FALSE
    [] x.t = "boolean" -> x.b
    [] x.t = "string" -> x.s # <<>>

\* a ?? b
Coalesce(a, b) == IF a = Undef THEN b ELSE a

\* s is a contiguous part of m
Includes(m, s) ==
  \E i \in 0..(Len(m) - Len(s)) : \A j \in 1..Len(s) : m[i + j] = s[j]

----------------------------------------------------------------------------
(* Constants of init.ts                                                    *)

NAME_MKDOCS_YML == "mkdocs.yml"
NAME_TSCONFIG_JSON == "tsconfig.json"
NAME_TYPEDOC_JSON == "typedoc.json"
NAME_PYTHON == "python"
REQUIREMENTS_TXT_PATH == "<docutils-root>/requirements.txt"

\* const args = ['-m', 'pip', 'install', '-r', REQUIREMENTS_TXT_PATH]
PipArgs == <<"-m", "pip", "install", "-r", REQUIREMENTS_TXT_PATH>>

MsgWarnTsConfig ==
  <<"Initialization of tsconfig.json disabled. TypeDoc requires a tsconfig.json; please ensure it exists">>
MsgPythonSuccess ==
  <<"Installed Python dependencies (or dependencies already installed)">>
MsgWouldExecute == <<"Would execute command:">>
MsgExecuting == <<"Executing command:">>
MsgInstalling == <<"Installing Python dependencies...">>
MsgReason == <<"Could not install Python dependencies. Reason:">>

LogLine(tag, level, msg) == [tag |-> tag, level |-> level, msg |-> msg]

NoError == [type |-> "none", message |-> <<>>]
DocutilsError(msg) == [type |-> "DocutilsError", message |-> msg]
PlainError(msg) == [type |-> "Error", message |-> msg]

----------------------------------------------------------------------------
(* Bounds and input sets                                                   *)

\* at most this many of init's non-flag options are given in one call
MaxGiven == 2

FlagKeys == {"typescript", "typedoc", "python", "mkdocs"}
OptKeys == {"tsConfigJson", "typedocJson", "mkdocsPath", "packageJson",
            "overwrite", "include", "cwd", "pythonPath", "siteName",
            "repoName", "repoUrl", "siteDescription", "copyright", "dryRun"}

\* the value an option has when the caller gives it
Given(k, d) ==
  CASE k = "dryRun" -> Bool(d)
    [] k = "overwrite" -> Bool(TRUE)
    [] k = "pythonPath" -> Str(<<"python3">>)
    [] OTHER -> Str(<<k>>)

InitOptionsOf(F, S, d) ==
  [k \in FlagKeys \cup OptKeys |->
     IF k \in FlagKeys THEN Bool(k \in F)
     ELSE IF k \in S THEN Given(k, d) ELSE Undef]

ExitCodes == {0, 1}
Stdouts == {<<>>, <<"ERROR:", "No matching distribution">>}
ExecErrors == {PlainError(<<"spawn", "ENOENT">>)}

----------------------------------------------------------------------------
(* init: the order of its `if` blocks, their conditions, what each passes  *)

\* mutant: the python block moved above the typedoc block
StepOrder_PythonBeforeTypedoc == <<"tsconfig", "python", "typedoc", "mkdocs">>

\* the four blocks of init, top to bottom
StepOrder == <<"tsconfig", "typedoc", "python", "mkdocs">>

\* the condition of a block
StepEnabled(s, o) ==
  CASE s = "tsconfig" -> Truthy(o["typescript"])
    [] s = "typedoc" -> Truthy(o["typedoc"])
    [] s = "python" -> Truthy(o["python"])
    [] s = "mkdocs" -> Truthy(o["mkdocs"])

\* mutant: the warning no longer looks at typescript
WarnNeeded_TypedocOnly(o) == Truthy(o["typedoc"])

\* if (!typescript && typedoc)
WarnNeeded(o) == ~Truthy(o["typescript"]) /\ Truthy(o["typedoc"])

\* the object literal a block passes to its task
StepArgs(s, o) ==
  CASE s = "tsconfig" ->
         [dest |-> o["tsConfigJson"], packageJson |-> o["packageJson"],
          overwrite |-> o["overwrite"], include |-> o["include"],
          dryRun |-> o["dryRun"], cwd |-> o["cwd"]]
    [] s = "typedoc" ->
         [dest |-> o["typedocJson"], packageJson |-> o["packageJson"],
          overwrite |-> o["overwrite"], dryRun |-> o["dryRun"],
          cwd |-> o["cwd"]]
    [] s = "python" ->
         [pythonPath |-> o["pythonPath"], dryRun |-> o["dryRun"]]
    [] s = "mkdocs" ->
         [dest |-> o["mkdocsPath"], cwd |-> o["cwd"],
          siteName |-> o["siteName"], repoUrl |-> o["repoUrl"],
          repoName |-> o["repoName"], copyright |-> o["copyright"],
          packageJson |-> o["packageJson"], overwrite |-> o["overwrite"],
          dryRun |-> o["dryRun"]]

\* mutant: the rejection is caught and init carries on
AfterAwait_Swallowed(e, i) ==
  [pc |-> "step", ip |-> i + 1,
   result |-> [status |-> "pending", error |-> NoError]]

\* `await task(...)` with no try/catch around it: a rejection leaves init
\* at once with that error, a resolution moves on to the next block
AfterAwait(e, i) ==
  IF e # NoError
    THEN [pc |-> "failed", ip |-> i,
          result |-> [status |-> "rejected", error |-> e]]
    ELSE [pc |-> "step", ip |-> i + 1,
          result |-> [status |-> "pending", error |-> NoError]]

----------------------------------------------------------------------------
(* initPython                                                              *)

\* parameter defaults: pythonPath = NAME_PYTHON, dryRun = false
PythonPathOf(a) == Coalesce(a.pythonPath, Str(<<NAME_PYTHON>>))
DryRunOf(a) == Coalesce(a.dryRun, Bool(FALSE))

\* '%s %s', pythonPath, args.join(' ')
CommandLine(a) == PythonPathOf(a).s \o PipArgs

\* mutant: the dry-run test inverted
PythonIsDryRun_Inverted(a) == ~Truthy(DryRunOf(a))

\* if (dryRun)
PythonIsDryRun(a) == Truthy(DryRunOf(a))

\* mutant: the exit code is not looked at
PythonTryCatch_NoCodeCheck(outcome) ==
  IF outcome.kind = "rejected"
    THEN DocutilsError(MsgReason \o outcome.err.message)
    ELSE NoError

\* the try/catch around exec: the error that leaves it, or NoError
PythonTryCatch(outcome) ==
  LET thrown ==
        IF outcome.kind = "rejected" THEN outcome.err
        ELSE IF outcome.code # 0
          THEN DocutilsError(MsgReason \o outcome.stdout)
          ELSE NoError
  IN IF thrown = NoError THEN NoError
     ELSE DocutilsError(MsgReason \o thrown.message)

\* log.success after the if/else: reached whenever nothing was thrown
PythonSuccessLog(a, e) ==
  IF e = NoError THEN <<LogLine("init", "success", MsgPythonSuccess)>>
  ELSE <<>>

----------------------------------------------------------------------------
(* A scaffold task (createScaffoldTask, ./init-task), as spec.md section   *)
(* 4.2 describes it                                                        *)

FileName(s) ==
  CASE s = "tsconfig" -> NAME_TSCONFIG_JSON
    [] s = "typedoc" -> NAME_TYPEDOC_JSON
    [] s = "mkdocs" -> NAME_MKDOCS_YML

\* step 1: options.dest if given, else fileName joined with options.cwd
ScaffoldDest(s, a) ==
  IF a.dest # Undef THEN a.dest.s
  ELSE Coalesce(a.cwd, Str(<<".">>)).s \o <<FileName(s)>>

\* steps 7 and 8: the files after a task resolved
ScaffoldFiles(f, s, a) ==
  IF Truthy(a.dryRun) THEN f ELSE f \cup {ScaffoldDest(s, a)}

\* steps 7 and 8: the line a resolved task logs
ScaffoldLog(s, a) ==
  IF Truthy(a.dryRun)
    THEN <<LogLine("dry-run", "info", <<"Would write", ScaffoldDest(s, a)>>)>>
    ELSE <<LogLine("init", "success", <<"Wrote", ScaffoldDest(s, a)>>)>>

\* step 9: a read, parse or write failure
ScaffoldError(s) == PlainError(<<"I/O failure", FileName(s)>>)

----------------------------------------------------------------------------
(* The transform given to createScaffoldTask for mkdocs.yml                *)

\* Data for the base mkdocs.yml file
BASE_MKDOCS_YML ==
  [k \in {"INHERIT"} |->
     Str(<<"./node_modules/@appium/docutils/base-mkdocs.yml">>)]

\* obj.k of an object held as a function from its own keys
Get(obj, k) == IF k \in DOMAIN obj THEN obj[k] ELSE Undef

\* pkg.repository?.url
PkgRepositoryUrl(pkg) ==
  IF pkg.repository = Undef THEN Undef ELSE pkg.repository.url

\* the scheme and host of a URL string are held as its first token
Origins == {"https://opt.example", "https://file.example",
            "https://pkg.example"}

\* new URL(u): throws on a string that is no URL; an empty path reads "/"
ParseURL(u) ==
  IF u # <<>> /\ u[1] \in Origins
    THEN [ok |-> TRUE,
          pathname |-> IF Len(u) = 1 THEN <<"/">> ELSE Tail(u)]
    ELSE [ok |-> FALSE, pathname |-> <<>>]

\* pathname.slice(1)
Slice1(q) == IF q = <<>> THEN <<>> ELSE Tail(q)

\* q.split('/')
RECURSIVE Split(_)
Split(q) ==
  IF \A i \in 1..Len(q) : q[i] # "/" THEN <<q>>
  ELSE LET i == CHOOSE j \in 1..Len(q) :
                  q[j] = "/" /\ \A h \in 1..(j - 1) : q[h] # "/"
       IN <<SubSeq(q, 1, i - 1)>> \o Split(SubSeq(q, i + 1, Len(q)))

DotGit == <<".", "g", "i", "t">>

\* repo.replace(/\.git$/, '')
StripDotGit(q) ==
  IF Len(q) >= Len(DotGit) /\ SubSeq(q, Len(q) - Len(DotGit) + 1, Len(q)) = DotGit
    THEN SubSeq(q, 1, Len(q) - Len(DotGit))
    ELSE q

Returned(v) == [status |-> "returned", value |-> v, error |-> "none"]
Threw(e) == [status |-> "threw", value |-> Undef, error |-> e]

\* lines 104-108: owner/repo out of the URL; repo is undefined when the
\* path has a single segment, and repo.replace then throws
DeriveRepoName(u) ==
  LET parsed == ParseURL(u)
      parts == Split(Slice1(parsed.pathname))
  IN IF ~parsed.ok THEN Threw("TypeError: Invalid URL")
     ELSE IF Len(parts) < 2
       THEN Threw("TypeError: Cannot read properties of undefined")
       ELSE Returned(Str(parts[1] \o <<"/">> \o StripDotGit(parts[2])))

\* mutant: the existing file value consulted before the option
SiteNameOf_FileFirst(content, o, pkg) ==
  LET first == Coalesce(Get(content, "site_name"), Get(o, "siteName"))
  IN IF ~Truthy(first)
       THEN Coalesce(pkg.name, Str(<<"(no name)">>))
       ELSE first

\* lines 88-94
SiteNameOf(content, o, pkg) ==
  LET first == Coalesce(Get(o, "siteName"), Get(content, "site_name"))
  IN IF ~Truthy(first)
       THEN Coalesce(pkg.name, Str(<<"(no name)">>))
       ELSE first

\* lines 95-101
RepoUrlOf(content, o, pkg) ==
  LET first == Coalesce(Get(o, "repoUrl"), Get(content, "repo_url"))
  IN IF ~Truthy(first) THEN PkgRepositoryUrl(pkg) ELSE first

\* lines 102-112
RepoNameOf(content, o, pkg) ==
  LET first == Coalesce(Get(o, "repoName"), Get(content, "repo_name"))
      url == RepoUrlOf(content, o, pkg)
  IN IF Truthy(url) /\ ~Truthy(first)
       THEN DeriveRepoName(url.s)
       ELSE Returned(first)

\* lines 113-119
SiteDescriptionOf(content, o, pkg) ==
  LET first == Coalesce(Get(o, "siteDescription"),
                        Get(content, "site_description"))
  IN IF ~Truthy(first) THEN pkg.description ELSE first

MkDocsFields == {"site_name", "repo_url", "repo_name", "site_description"}

\* mutant: the spread of content left out
MergedContent_FieldsOnly(content, siteName, repoUrl, repoName, siteDescription) ==
  [site_name |-> siteName, repo_url |-> repoUrl, repo_name |-> repoName,
   site_description |-> siteDescription]

\* lines 120-126: {...content, site_name, repo_url, repo_name,
\* site_description}
MergedContent(content, siteName, repoUrl, repoName, siteDescription) ==
  [k \in DOMAIN content \cup MkDocsFields |->
     CASE k = "site_name" -> siteName
       [] k = "repo_url" -> repoUrl
       [] k = "repo_name" -> repoName
       [] k = "site_description" -> siteDescription
       [] OTHER -> content[k]]

\* transform: (content, opts, pkg) => {...}
Transform(content, o, pkg) ==
  LET repoName == RepoNameOf(content, o, pkg)
  IN IF repoName.status = "threw" THEN repoName
     ELSE Returned(MergedContent(content,
                                 SiteNameOf(content, o, pkg),
                                 RepoUrlOf(content, o, pkg),
                                 repoName.value,
                                 SiteDescriptionOf(content, o, pkg)))

\* the fields of the content object after the call: the transform assigns
\* to none of them
ContentAfterTransform(content, o, pkg) == content

InfoIf(cond, text, v) ==
  IF cond THEN <<LogLine("init", "info", <<text>> \o v.s)>> ELSE <<>>

\* the log.info lines of the transform, up to the point it returns or throws
TransformLog(content, o, pkg) ==
  LET firstName == Coalesce(Get(o, "siteName"), Get(content, "site_name"))
      siteName == SiteNameOf(content, o, pkg)
      firstUrl == Coalesce(Get(o, "repoUrl"), Get(content, "repo_url"))
      repoUrl == RepoUrlOf(content, o, pkg)
      firstRepo == Coalesce(Get(o, "repoName"), Get(content, "repo_name"))
      repoName == RepoNameOf(content, o, pkg)
      firstDesc == Coalesce(Get(o, "siteDescription"),
                            Get(content, "site_description"))
      siteDescription == SiteDescriptionOf(content, o, pkg)
  IN InfoIf(~Truthy(firstName) /\ Truthy(siteName),
            "Using site name from package.json:", siteName)
     \o InfoIf(~Truthy(firstUrl) /\ Truthy(repoUrl),
               "Using repo URL from package.json:", repoUrl)
     \o (IF repoName.status = "threw" THEN <<>>
         ELSE InfoIf(Truthy(repoUrl) /\ ~Truthy(firstRepo)
                       /\ Truthy(repoName.value),
                     "Using repo name from package.json:", repoName.value)
              \o InfoIf(~Truthy(firstDesc) /\ Truthy(siteDescription),
                        "Using site description URL from package.json:",
                        siteDescription))

----------------------------------------------------------------------------
(* The init / initPython state machine                                     *)

ExecOutcomes ==
  {[kind |-> "resolved", code |-> c, stdout |-> so, err |-> NoError] :
      c \in ExitCodes, so \in Stdouts}
  \cup {[kind |-> "rejected", code |-> 0, stdout |-> <<>>, err |-> e] :
      e \in ExecErrors}

NoOutcome == [kind |-> "none", code |-> 0, stdout |-> <<>>, err |-> NoError]
Pending == [status |-> "pending", error |-> NoError]
Resolved == [status |-> "resolved", error |-> NoError]

TransformIdle ==
  /\ tOpts = Undef
  /\ tContent = Undef
  /\ tContent0 = Undef
  /\ tPkg = Undef
  /\ tOut = Undef
  /\ tPhase = "idle"

Init ==
  /\ \E F \in SUBSET FlagKeys, S \in SUBSET OptKeys, d \in BOOLEAN :
       /\ Cardinality(S) <= MaxGiven
       /\ opts = InitOptionsOf(F, S, d)
  /\ entry \in {"init", "initPython"}
  /\ pc = "entry"
  /\ ip = 0
  /\ log = <<>>
  /\ calls = <<>>
  /\ running = {}
  /\ completed = {}
  /\ files = {}
  /\ spawned = <<>>
  /\ execOutcome = NoOutcome
  /\ stepErr = NoError
  /\ result = Pending
  /\ TransformIdle

CurrentStep == StepOrder[ip]
LastArgs == calls[Len(calls)].args

\* init, lines 196-200: the warning, then on to the first block
InitEntry ==
  /\ pc = "entry"
  /\ entry = "init"
  /\ log' = log \o (IF WarnNeeded(opts)
                      THEN <<LogLine("init", "warn", MsgWarnTsConfig)>>
                      ELSE <<>>)
  /\ pc' = "step"
  /\ ip' = 1
  /\ UNCHANGED <<opts, entry, calls, running, completed, files, spawned,
                 execOutcome, stepErr, result>>
  /\ UNCHANGED transformVars

\* a block whose condition is false
SkipStep ==
  /\ pc = "step"
  /\ ip <= Len(StepOrder)
  /\ ~StepEnabled(CurrentStep, opts)
  /\ ip' = ip + 1
  /\ UNCHANGED <<opts, entry, pc, log, calls, running, completed, files,
                 spawned, execOutcome, stepErr, result>>
  /\ UNCHANGED transformVars

\* await initTsConfigJson / initTypeDocJson / initMkDocs ({...}): the call
CallScaffold ==
  /\ pc = "step"
  /\ ip <= Len(StepOrder)
  /\ CurrentStep # "python"
  /\ StepEnabled(CurrentStep, opts)
  /\ calls' = Append(calls, [step |-> CurrentStep,
                             args |-> StepArgs(CurrentStep, opts)])
  /\ running' = running \cup {CurrentStep}
  /\ pc' = "await_scaffold"
  /\ UNCHANGED <<opts, entry, ip, log, completed, files, spawned,
                 execOutcome, stepErr, result>>
  /\ UNCHANGED transformVars

\* the scaffold task resolves; init goes on
ScaffoldResolve ==
  /\ pc = "await_scaffold"
  /\ files' = ScaffoldFiles(files, CurrentStep, LastArgs)
  /\ log' = log \o ScaffoldLog(CurrentStep, LastArgs)
  /\ running' = running \ {CurrentStep}
  /\ completed' = completed \cup {CurrentStep}
  /\ pc' = AfterAwait(NoError, ip).pc
  /\ ip' = AfterAwait(NoError, ip).ip
  /\ result' = AfterAwait(NoError, ip).result
  /\ UNCHANGED <<opts, entry, calls, spawned, execOutcome, stepErr>>
  /\ UNCHANGED transformVars

\* the scaffold task rejects
ScaffoldReject ==
  /\ pc = "await_scaffold"
  /\ stepErr' = ScaffoldError(CurrentStep)
  /\ running' = running \ {CurrentStep}
  /\ pc' = AfterAwait(stepErr', ip).pc
  /\ ip' = AfterAwait(stepErr', ip).ip
  /\ result' = AfterAwait(stepErr', ip).result
  /\ UNCHANGED <<opts, entry, log, calls, completed, files, spawned,
                 execOutcome>>
  /\ UNCHANGED transformVars

\* await initPython({pythonPath, dryRun}): the call
CallPython ==
  /\ pc = "step"
  /\ ip <= Len(StepOrder)
  /\ CurrentStep = "python"
  /\ StepEnabled(CurrentStep, opts)
  /\ calls' = Append(calls, [step |-> "python",
                             args |-> StepArgs("python", opts)])
  /\ running' = running \cup {"python"}
  /\ pc' = "py_body"
  /\ UNCHANGED <<opts, entry, ip, log, completed, files, spawned,
                 execOutcome, stepErr, result>>
  /\ UNCHANGED transformVars

\* initPython called by a caller other than init
DirectPython ==
  /\ pc = "entry"
  /\ entry = "initPython"
  /\ calls' = Append(calls, [step |-> "python",
                             args |-> [pythonPath |-> opts["pythonPath"],
                                       dryRun |-> opts["dryRun"]]])
  /\ running' = running \cup {"python"}
  /\ pc' = "py_body"
  /\ UNCHANGED <<opts, entry, ip, log, completed, files, spawned,
                 execOutcome, stepErr, result>>
  /\ UNCHANGED transformVars

\* initPython returns to whoever awaits it
PythonSettles(e) ==
  /\ running' = running \ {"python"}
  /\ completed' = IF e = NoError THEN completed \cup {"python"} ELSE completed
  /\ stepErr' = e
  /\ IF entry = "init"
       THEN /\ pc' = AfterAwait(e, ip).pc
            /\ ip' = AfterAwait(e, ip).ip
            /\ result' = AfterAwait(e, ip).result
       ELSE /\ pc' = IF e = NoError THEN "done" ELSE "failed"
            /\ ip' = ip
            /\ result' = IF e = NoError THEN Resolved
                         ELSE [status |-> "rejected", error |-> e]

\* initPython, lines 139-141 and 157: the dry-run branch
PythonDryRun ==
  /\ pc = "py_body"
  /\ PythonIsDryRun(LastArgs)
  /\ log' = log
            \o <<LogLine("dry-run", "info",
                         MsgWouldExecute \o CommandLine(LastArgs))>>
            \o PythonSuccessLog(LastArgs, NoError)
  /\ PythonSettles(NoError)
  /\ UNCHANGED <<opts, entry, calls, files, spawned, execOutcome>>
  /\ UNCHANGED transformVars

\* initPython, lines 143-146: the subprocess is started
PythonExec ==
  /\ pc = "py_body"
  /\ ~PythonIsDryRun(LastArgs)
  /\ log' = log
            \o <<LogLine("init", "debug",
                         MsgExecuting \o CommandLine(LastArgs)),
                 LogLine("init", "info", MsgInstalling)>>
  /\ spawned' = Append(spawned, CommandLine(LastArgs))
  /\ pc' = "py_exec"
  /\ UNCHANGED <<opts, entry, ip, calls, running, completed, files,
                 execOutcome, stepErr, result>>
  /\ UNCHANGED transformVars

\* initPython, lines 146-157: the exec promise settles
PythonExecSettles ==
  /\ pc = "py_exec"
  /\ \E outcome \in ExecOutcomes :
       /\ execOutcome' = outcome
       /\ log' = log \o PythonSuccessLog(LastArgs, PythonTryCatch(outcome))
       /\ PythonSettles(PythonTryCatch(outcome))
  /\ UNCHANGED <<opts, entry, calls, files, spawned>>
  /\ UNCHANGED transformVars

\* init falls off its last block
InitReturn ==
  /\ pc = "step"
  /\ ip = Len(StepOrder) + 1
  /\ pc' = "done"
  /\ result' = Resolved
  /\ UNCHANGED <<opts, entry, ip, log, calls, running, completed, files,
                 spawned, execOutcome, stepErr>>
  /\ UNCHANGED transformVars

Next ==
  \/ InitEntry
  \/ SkipStep
  \/ CallScaffold
  \/ ScaffoldResolve
  \/ ScaffoldReject
  \/ CallPython
  \/ DirectPython
  \/ PythonDryRun
  \/ PythonExec
  \/ PythonExecSettles
  \/ InitReturn

Spec == Init /\ [][Next]_vars

----------------------------------------------------------------------------
(* The transform applied to bounded inputs                                 *)

\* at most this many of the transform's eleven inputs are present
MaxInputs == 4
\* at most this many of the present inputs are the empty string
MaxEmpty == 1
\* a URL path has at most this many segments
MaxSegs == 2

InputKeys == {"opt.siteName", "file.site_name", "pkg.name",
              "opt.repoUrl", "file.repo_url", "pkg.repository.url",
              "opt.repoName", "file.repo_name",
              "opt.siteDescription", "file.site_description",
              "pkg.description"}
UrlKeys == {"opt.repoUrl", "file.repo_url", "pkg.repository.url"}

Segments == {<<>>, <<"o">>, <<"r", ".", "g", "i", "t">>}

RECURSIVE PathsWith(_)
PathsWith(n) ==
  IF n = 0 THEN {<<>>}
  ELSE {q \o <<"/">> \o g : q \in PathsWith(n - 1), g \in Segments}

\* what follows the host in a URL, or a string that is no URL at all
UrlShapes ==
  {[valid |-> TRUE, tail |-> q] :
      q \in UNION {PathsWith(n) : n \in 0..MaxSegs}}
  \cup {[valid |-> FALSE, tail |-> <<>>]}

OriginOf(k) ==
  CASE k = "opt.repoUrl" -> "https://opt.example"
    [] k = "file.repo_url" -> "https://file.example"
    [] k = "pkg.repository.url" -> "https://pkg.example"

UrlString(k, shape) ==
  IF shape.valid THEN <<OriginOf(k)>> \o shape.tail
  ELSE <<"git@example.com:", k>>

InputValue(k, G, E, shape) ==
  IF k \notin G THEN Undef
  ELSE IF k \in E THEN Str(<<>>)
  ELSE IF k \in UrlKeys THEN Str(UrlString(k, shape))
  ELSE Str(<<k>>)

FileKeyOf(k) ==
  CASE k = "file.site_name" -> "site_name"
    [] k = "file.repo_url" -> "repo_url"
    [] k = "file.repo_name" -> "repo_name"
    [] k = "file.site_description" -> "site_description"
FileInputs == {"file.site_name", "file.repo_url", "file.repo_name",
               "file.site_description"}

\* the keys the content has besides the four fields: the base template's,
\* or an existing file's
ExtraKeySets == {{"INHERIT"}, {"INHERIT", "nav"}}

ContentOf(G, E, shape, X) ==
  [k \in X \cup {FileKeyOf(f) : f \in G \cap FileInputs} |->
     IF k \in X
       THEN (IF k = "INHERIT" THEN BASE_MKDOCS_YML["INHERIT"]
             ELSE Str(<<k>>))
       ELSE InputValue(CHOOSE f \in FileInputs : FileKeyOf(f) = k,
                       G, E, shape)]

TaskOptionsOf(G, E, shape) ==
  [siteName |-> InputValue("opt.siteName", G, E, shape),
   repoUrl |-> InputValue("opt.repoUrl", G, E, shape),
   repoName |-> InputValue("opt.repoName", G, E, shape),
   siteDescription |-> InputValue("opt.siteDescription", G, E, shape)]

PackageOf(G, E, shape) ==
  [name |-> InputValue("pkg.name", G, E, shape),
   description |-> InputValue("pkg.description", G, E, shape),
   repository |->
     IF "pkg.repository.url" \in G
       THEN [url |-> InputValue("pkg.repository.url", G, E, shape)]
       ELSE Undef]

OrchIdle ==
  /\ opts = Undef
  /\ entry = "transform"
  /\ pc = "idle"
  /\ ip = 0
  /\ log = <<>>
  /\ calls = <<>>
  /\ running = {}
  /\ completed = {}
  /\ files = {}
  /\ spawned = <<>>
  /\ execOutcome = NoOutcome
  /\ stepErr = NoError
  /\ result = Pending

InitTransform ==
  /\ OrchIdle
  /\ \E G \in SUBSET InputKeys, shape \in UrlShapes, X \in ExtraKeySets :
       \E E \in SUBSET G :
         /\ Cardinality(G) <= MaxInputs
         /\ Cardinality(E) <= MaxEmpty
         /\ tOpts = TaskOptionsOf(G, E, shape)
         /\ tContent = ContentOf(G, E, shape, X)
         /\ tPkg = PackageOf(G, E, shape)
  /\ tContent0 = tContent
  /\ tOut = Undef
  /\ tPhase = "ready"

\* the scaffold task calls transform(content, opts, pkg)
TransformCall ==
  /\ tPhase = "ready"
  /\ tOut' = Transform(tContent, tOpts, tPkg)
  /\ tContent' = ContentAfterTransform(tContent, tOpts, tPkg)
  /\ log' = log \o TransformLog(tContent, tOpts, tPkg)
  /\ tPhase' = "called"
  /\ UNCHANGED <<opts, entry, pc, ip, calls, running, completed, files,
                 spawned, execOutcome, stepErr, result>>
  /\ UNCHANGED <<tOpts, tContent0, tPkg>>

NextTransform == TransformCall

SpecTransform == InitTransform /\ [][NextTransform]_vars

----------------------------------------------------------------------------
(* Properties of init and initPython, checked under Spec                   *)

Started == [i \in 1..Len(calls) |-> calls[i].step]
HasStarted(s) == \E i \in 1..Len(calls) : calls[i].step = s
Terminated == pc \in {"done", "failed"}
ByInit == entry = "init"
Flag(k) == opts[k] = Bool(TRUE)
Warned == \E i \in 1..Len(log) : log[i].level = "warn"
                                   /\ log[i].msg = MsgWarnTsConfig
SuccessLogged == \E i \in 1..Len(log) : log[i].msg = MsgPythonSuccess

\* the steps the flags ask for, in the documented order
ExpectedSteps ==
  (IF Flag("typescript") THEN <<"tsconfig">> ELSE <<>>)
  \o (IF Flag("typedoc") THEN <<"typedoc">> ELSE <<>>)
  \o (IF Flag("python") THEN <<"python">> ELSE <<>>)
  \o (IF Flag("mkdocs") THEN <<"mkdocs">> ELSE <<>>)

\* C1: init starts the enabled steps in the order tsconfig, typedoc,
\* python, mkdocs; when a step is started every step started before it has
\* completed, and at most one step is in progress at any time.
C1_SequentialOrder ==
  ByInit =>
    /\ Len(Started) <= Len(ExpectedSteps)
    /\ Started = SubSeq(ExpectedSteps, 1, Len(Started))
    /\ pc = "done" => Started = ExpectedSteps
    /\ Cardinality(running) <= 1
    /\ \A i \in 1..Len(calls) :
         /\ i < Len(calls) => calls[i].step \in completed
         /\ calls[i].step \in running => i = Len(calls)

C1_Witness ==
  /\ ByInit
  /\ pc = "await_scaffold"
  /\ Started = <<"tsconfig", "typedoc", "python", "mkdocs">>
  /\ running = {"mkdocs"}
  /\ completed = {"tsconfig", "typedoc", "python"}

\* C2: when a step run by init fails, init rejects with that very error
\* and no step after the failing one is ever started.
C2_FailurePropagates ==
  (ByInit /\ stepErr # NoError) =>
    /\ pc = "failed"
    /\ result = [status |-> "rejected", error |-> stepErr]
    /\ running = {}
    /\ \A i \in 1..Len(calls) :
         calls[i].step \notin completed => i = Len(calls)
    /\ Started[Len(calls)] \notin completed

C2_Witness ==
  /\ ByInit
  /\ pc = "failed"
  /\ Started = <<"tsconfig", "typedoc">>
  /\ Flag("python")
  /\ Flag("mkdocs")
  /\ result.error = stepErr
  /\ stepErr # NoError

\* the command line the dry-run log is to show
ExpectedCommand ==
  (IF opts["pythonPath"] = Undef THEN <<"python">>
   ELSE opts["pythonPath"].s)
  \o <<"-m", "pip", "install", "-r", REQUIREMENTS_TXT_PATH>>

DryRunCommandLogged ==
  \E i \in 1..Len(log) :
    /\ log[i].tag = "dry-run"
    /\ log[i].msg = <<"Would execute command:">> \o ExpectedCommand

\* C3: with dryRun = true no subprocess is spawned and no file is written;
\* every step init runs is given dryRun = true; initPython resolves, having
\* logged `<pythonPath> -m pip install -r <requirements>` on the dry-run
\* channel.
C3_DryRunNoEffects ==
  opts["dryRun"] = Bool(TRUE) =>
    /\ spawned = <<>>
    /\ execOutcome = NoOutcome
    /\ files = {}
    /\ \A i \in 1..Len(calls) : calls[i].args.dryRun = Bool(TRUE)
    /\ (HasStarted("python") /\ "python" \notin running) =>
         /\ "python" \in completed
         /\ DryRunCommandLogged
    /\ (~ByInit /\ pc # "entry" /\ "python" \notin running) =>
         /\ pc = "done"
         /\ result = Resolved

C3_Witness ==
  /\ opts["dryRun"] = Bool(TRUE)
  /\ opts["pythonPath"] = Str(<<"python3">>)
  /\ ByInit
  /\ pc = "done"
  /\ Started = <<"tsconfig", "typedoc", "python", "mkdocs">>
  /\ DryRunCommandLogged
  /\ files = {}
  /\ spawned = <<>>

ExecFailed ==
  \/ execOutcome.kind = "rejected"
  \/ execOutcome.kind = "resolved" /\ execOutcome.code # 0

\* C4: without dry-run, a subprocess that exits non-zero or cannot be
\* executed makes initPython reject with a DocutilsError, never resolve and
\* never log success; the message includes the stdout text (non-zero
\* exit) or the underlying error's message (execution failure).
C4_PythonFailureIsDocutilsError ==
  ExecFailed =>
    /\ stepErr.type = "DocutilsError"
    /\ result = [status |-> "rejected", error |-> stepErr]
    /\ pc = "failed"
    /\ "python" \notin completed
    /\ ~SuccessLogged
    /\ execOutcome.kind = "resolved" =>
         Includes(stepErr.message, execOutcome.stdout)
    /\ execOutcome.kind = "rejected" =>
         Includes(stepErr.message, execOutcome.err.message)

C4_Witness ==
  /\ execOutcome.kind = "resolved"
  /\ execOutcome.code = 1
  /\ execOutcome.stdout = <<"ERROR:", "No matching distribution">>
  /\ stepErr.type = "DocutilsError"
  /\ Includes(stepErr.message, <<"ERROR:", "No matching distribution">>)
  /\ pc = "failed"

\* C5: the success message of initPython is logged only after a subprocess
\* execution that returned exit code zero.
C5_SuccessOnlyAfterZeroExit ==
  SuccessLogged =>
    /\ execOutcome.kind = "resolved"
    /\ execOutcome.code = 0
    /\ spawned # <<>>

\* C6 as stated: the warning is logged exactly when typedoc is set and
\* typescript is not, the tsconfig scaffold runs iff typescript is set and
\* the typedoc scaffold runs iff typedoc is set.
C6_Original ==
  (ByInit /\ Terminated) =>
    /\ Warned <=> (Flag("typedoc") /\ ~Flag("typescript"))
    /\ HasStarted("tsconfig") <=> Flag("typescript")
    /\ HasStarted("typedoc") <=> Flag("typedoc")

TsConfigFailed == HasStarted("tsconfig") /\ "tsconfig" \notin completed
                  /\ "tsconfig" \notin running

\* C6 amended: the warning is logged exactly when typedoc is set and
\* typescript is not, and then no tsconfig is scaffolded while the typedoc
\* scaffold is still attempted; the tsconfig scaffold runs iff typescript
\* is set; the typedoc scaffold runs iff typedoc is set and the tsconfig
\* scaffold did not fail.
C6_WarningAndScaffolds ==
  ByInit =>
    /\ pc # "entry" => (Warned <=> (Flag("typedoc") /\ ~Flag("typescript")))
    /\ Cardinality({i \in 1..Len(log) : log[i].level = "warn"}) <= 1
    /\ Terminated =>
         /\ HasStarted("tsconfig") <=> Flag("typescript")
         /\ HasStarted("typedoc") <=> (Flag("typedoc") /\ ~TsConfigFailed)
         /\ Warned => (~HasStarted("tsconfig") /\ HasStarted("typedoc"))

C6_Witness ==
  /\ ByInit
  /\ Terminated
  /\ Warned
  /\ ~Flag("typescript")
  /\ HasStarted("typedoc")
  /\ ~HasStarted("tsconfig")

Field(a, k) == IF k \in DOMAIN a THEN a[k] ELSE Undef

\* the options a step is documented to receive: argument name -> option name
Forwarded(s) ==
  CASE s = "tsconfig" ->
         [dest |-> "tsConfigJson", packageJson |-> "packageJson",
          overwrite |-> "overwrite", dryRun |-> "dryRun", cwd |-> "cwd",
          include |-> "include"]
    [] s = "typedoc" ->
         [dest |-> "typedocJson", packageJson |-> "packageJson",
          overwrite |-> "overwrite", dryRun |-> "dryRun", cwd |-> "cwd"]
    [] s = "python" ->
         [pythonPath |-> "pythonPath", dryRun |-> "dryRun"]
    [] s = "mkdocs" ->
         [dest |-> "mkdocsPath", packageJson |-> "packageJson",
          overwrite |-> "overwrite", dryRun |-> "dryRun", cwd |-> "cwd",
          siteName |-> "siteName", repoUrl |-> "repoUrl",
          repoName |-> "repoName", siteDescription |-> "siteDescription",
          copyright |-> "copyright"]

\* C9: each step init runs receives its documented subset of init's
\* options, values unchanged, the path options renamed to dest; mkdocs
\* receives siteName, repoUrl, repoName, siteDescription and copyright.
C9_OptionsForwarded ==
  ByInit =>
    \A i \in 1..Len(calls) :
      \A k \in DOMAIN Forwarded(calls[i].step) :
        Field(calls[i].args, k) = opts[Forwarded(calls[i].step)[k]]

----------------------------------------------------------------------------
(* Properties of the mkdocs transform, checked under SpecTransform         *)

Called == tPhase = "called"
HasReturned == Called /\ tOut.status = "returned"

\* the three sources of a field, as given to the call
OptionOf(f) ==
  CASE f = "site_name" -> tOpts.siteName
    [] f = "repo_url" -> tOpts.repoUrl
    [] f = "repo_name" -> tOpts.repoName
    [] f = "site_description" -> tOpts.siteDescription
FileValueOf(f) == IF f \in DOMAIN tContent0 THEN tContent0[f] ELSE Undef
MetadataOf(f) ==
  CASE f = "site_name" -> tPkg.name
    [] f = "repo_url" ->
         (IF tPkg.repository = Undef THEN Undef ELSE tPkg.repository.url)
    [] f = "site_description" -> tPkg.description

Present(x) == x # Undef /\ x # Str(<<>>)
FirstPresent(a, b, c) ==
  IF Present(a) THEN a ELSE IF Present(b) THEN b
  ELSE IF Present(c) THEN c ELSE Undef
\* a value that is no usable string counts as absent
Effective(x) == IF Present(x) THEN x ELSE Undef

FirstSlash(q) ==
  IF \E i \in 1..Len(q) : q[i] = "/"
    THEN CHOOSE i \in 1..Len(q) :
           q[i] = "/" /\ \A j \in 1..(i - 1) : q[j] # "/"
    ELSE Len(q) + 1

IsUrl(u) == u # <<>> /\ u[1] \in Origins
\* the path after its leading separator
PathRest(u) == SubSeq(u, 3, Len(u))
HasTwoSegments(u) == IsUrl(u) /\ FirstSlash(PathRest(u)) <= Len(PathRest(u))

\* owner/repo as the documentation derives it from a URL
DocumentedRepoName(u) ==
  LET rest == PathRest(u)
      owner == SubSeq(rest, 1, FirstSlash(rest) - 1)
      after == SubSeq(rest, FirstSlash(rest) + 1, Len(rest))
      seg == SubSeq(after, 1, FirstSlash(after) - 1)
      n == Len(seg)
      repo == IF n >= 4 /\ seg[n - 3] = "." /\ seg[n - 2] = "g"
                 /\ seg[n - 1] = "i" /\ seg[n] = "t"
                THEN SubSeq(seg, 1, n - 4) ELSE seg
  IN Str(owner \o <<"/">> \o repo)

\* C7 as stated: each field is the first available of explicit option,
\* existing file value and metadata-derived value, and absent when none
\* of them is available.
C7_Original ==
  HasReturned =>
    LET url == FirstPresent(OptionOf("repo_url"), FileValueOf("repo_url"),
                            MetadataOf("repo_url"))
        derived == IF Present(url) /\ HasTwoSegments(url.s)
                     THEN DocumentedRepoName(url.s) ELSE Undef
    IN /\ \A f \in {"site_name", "repo_url", "site_description"} :
            Effective(tOut.value[f])
              = FirstPresent(OptionOf(f), FileValueOf(f), MetadataOf(f))
       /\ Effective(tOut.value["repo_name"])
            = FirstPresent(OptionOf("repo_name"), FileValueOf("repo_name"),
                           derived)

\* what the ?? of option and file value yields
Consulted(f) ==
  IF OptionOf(f) # Undef THEN OptionOf(f) ELSE FileValueOf(f)

ResolvedUrl ==
  IF Present(Consulted("repo_url")) THEN Consulted("repo_url")
  ELSE MetadataOf("repo_url")

MustDeriveRepoName == Present(ResolvedUrl) /\ ~Present(Consulted("repo_name"))

\* C7 amended: a non-empty explicit option wins; with no option given a
\* non-empty existing file value wins; otherwise the metadata-derived value
\* is used (an empty option hides the file value).  The site name falls
\* back to '(no name)' when the metadata has no name, so it is never
\* absent; repository URL and site description are absent when the
\* metadata has none; the repository name is owner/repo of the resolved
\* repository URL, and absent when there is no such URL.  The transform
\* throws, instead of returning, exactly when it has to derive the
\* repository name from a string that is no URL or whose path has fewer
\* than two segments.
C7_Precedence ==
  Called =>
    /\ tOut.status = "threw"
         <=> (MustDeriveRepoName /\ ~HasTwoSegments(ResolvedUrl.s))
    /\ tOut.status = "returned" =>
         /\ \A f \in MkDocsFields :
              /\ Present(OptionOf(f)) => tOut.value[f] = OptionOf(f)
              /\ (OptionOf(f) = Undef /\ Present(FileValueOf(f)))
                   => tOut.value[f] = FileValueOf(f)
         /\ \A f \in {"repo_url", "site_description"} :
              ~Present(Consulted(f)) => tOut.value[f] = MetadataOf(f)
         /\ ~Present(Consulted("site_name")) =>
              tOut.value["site_name"]
                = (IF MetadataOf("site_name") = Undef
                     THEN Str(<<"(no name)">>)
                     ELSE MetadataOf("site_name"))
         /\ MustDeriveRepoName =>
              tOut.value["repo_name"] = DocumentedRepoName(ResolvedUrl.s)
         /\ (~Present(ResolvedUrl) /\ ~Present(Consulted("repo_name"))) =>
              Effective(tOut.value["repo_name"]) = Undef

C7_Witness ==
  /\ HasReturned
  /\ Present(OptionOf("site_name"))
  /\ Present(FileValueOf("site_name"))
  /\ Present(MetadataOf("site_name"))
  /\ tOut.value["site_name"] = Str(<<"opt.siteName">>)
  /\ tOut.value["site_description"] = Undef
  /\ tOut.value["repo_url"] = Undef

\* C8: when a repository URL is available and neither the option nor the
\* existing file gives a repository name, repo_name is owner/repo of the
\* URL path; with fewer than two path segments the transform still returns,
\* and the name it yields has an empty owner or an empty repo.
C8_RepoNameDerived ==
  (Called /\ MustDeriveRepoName /\ IsUrl(ResolvedUrl.s)) =>
    /\ tOut.status = "returned"
    /\ HasTwoSegments(ResolvedUrl.s) =>
         tOut.value["repo_name"] = DocumentedRepoName(ResolvedUrl.s)
    /\ ~HasTwoSegments(ResolvedUrl.s) =>
         /\ tOut.value["repo_name"].t = "string"
         /\ LET name == tOut.value["repo_name"].s
            IN name # <<>> /\ (name[1] = "/" \/ name[Len(name)] = "/")

\* C10: the output holds every key of the content other than the four
\* fields with its value unchanged and no key beyond the content's keys and
\* the four fields, and the content object passed in is left as it was.
C10_ShallowMergeNoMutation ==
  Called =>
    /\ tContent = tContent0
    /\ tOut.status = "returned" =>
         /\ DOMAIN tOut.value = DOMAIN tContent0 \cup MkDocsFields
         /\ \A k \in DOMAIN tContent0 \ MkDocsFields :
              tOut.value[k] = tContent0[k]

C10_Witness ==
  /\ HasReturned
  /\ tContent = tContent0
  /\ DOMAIN tContent0 = {"INHERIT", "nav", "site_name"}
  /\ tOut.value["nav"] = tContent0["nav"]
  /\ tOut.value["INHERIT"] = BASE_MKDOCS_YML["INHERIT"]
  /\ tOut.value["site_name"] # tContent0["site_name"]
  /\ DOMAIN tOut.value = {"INHERIT", "nav"} \cup MkDocsFields

====
